---- MODULE Spec2Model ----
(***************************************************************************)
(* A model of tools.py, the Blender helper module.                          *)
(*                                                                          *)
(* The host application (bpy) is modelled by the documented effect of each  *)
(* operator the module calls, on a scene record:                            *)
(*   objects   the ids of bpy.data.objects                                  *)
(*   otype     id -> "MESH" | "CAMERA"                                      *)
(*   selected  the ids whose .select is True                                *)
(*   active    bpy.context.scene.objects.active (an id or None)             *)
(*   mode      the editing mode, "OBJECT" | "EDIT"                          *)
(*   groups    bpy.data.groups, a sequence of sets of ids                   *)
(*   nextId    the id the next created object gets                          *)
(* Every Python function of the module is an operator from a scene (and its *)
(* arguments) to an outcome [scene, result, ret]; result is "ok" or the     *)
(* name of the exception raised.  Every object is visible and selectable,   *)
(* and a host operator runs in a context that accepts it.                   *)
(*                                                                          *)
(* Floating point is replaced by exact integer arithmetic: coordinates are  *)
(* integers, a length is kept as its square, an angle as its cosine, and a  *)
(* U coordinate in sixths.                                                  *)
(***************************************************************************)
EXTENDS Integers, Sequences, FiniteSets, TLC

VARIABLES
  scene,      \* the host's scene graph
  last,       \* the last call of a scene function: name, argument, outcome
  mat,        \* make_matrix: the three points and the outcome
  mesh,       \* collapse_edges_in_order: the bmesh, the loop position, the history
  lay,        \* move_object_to_layer: obj.layers, the argument, the outcome
  bake        \* render_360_images_for_cameras: the position in the pipeline

vars == <<scene, last, mat, mesh, lay, bake>>

\* Python's None where an object is expected; object ids start at 1.
None == 0

\* ------------------------------------------------------------------ bounds
MaxInitObjs == 3     \* objects in the scene before the first call
MaxIds == 5          \* ids ever handed out (caps object creation)
MaxFileObjs == 2     \* objects in an imported fbx file

\* ------------------------------------------------------------- host scene
ObjTypes == {"MESH", "CAMERA"}

Cameras(sc) == {o \in sc.objects : sc.otype[o] = "CAMERA"}

\* bpy.ops.object.select_all(action='DESELECT')
ops_select_all_deselect(sc) == [sc EXCEPT !.selected = {}]

\* o.select = True
set_select(sc, o) == [sc EXCEPT !.selected = sc.selected \cup {o}]

\* bpy.ops.object.mode_set(mode=m)
ops_mode_set(sc, m) == [sc EXCEPT !.mode = m]

\* bpy.context.scene.objects.active = o
set_active(sc, o) == [sc EXCEPT !.active = o]

\* bpy.ops.object.delete(): the selected objects leave the scene, the
\* selection, every group, and the active slot.
ops_object_delete(sc) ==
  LET gone == sc.selected
  IN  [sc EXCEPT !.objects = sc.objects \ gone,
                 !.otype = [o \in sc.objects \ gone |-> sc.otype[o]],
                 !.selected = {},
                 !.active = IF sc.active \in gone THEN None ELSE sc.active,
                 !.groups = [g \in DOMAIN sc.groups |-> sc.groups[g] \ gone]]

\* A new object of type ty enters bpy.data.objects under a fresh id.
AddObject(sc, ty) ==
  [sc EXCEPT !.objects = sc.objects \cup {sc.nextId},
             !.otype = [o \in sc.objects \cup {sc.nextId} |->
                          IF o = sc.nextId THEN ty ELSE sc.otype[o]],
             !.nextId = sc.nextId + 1]

\* bpy.ops.import_scene.fbx(filepath=...): the file's objects, in order.
RECURSIVE ops_import_fbx(_, _)
ops_import_fbx(sc, file) ==
  IF file = <<>> THEN sc
  ELSE ops_import_fbx(AddObject(sc, Head(file)), Tail(file))

Outcome(sc, result, ret) == [scene |-> sc, result |-> result, ret |-> ret]

\* ---------------------------------------------------------- tools.py, scene
select_object_unguarded(sc, obj) ==
  LET s1 == ops_select_all_deselect(sc)
  IN  IF obj = None THEN Outcome(s1, "ValueError", None)
      ELSE Outcome(set_select(ops_mode_set(set_active(s1, obj), "OBJECT"), obj),
                   "ok", None)

select_object(sc, obj) ==
  IF obj = None THEN Outcome(sc, "ValueError", None)
  ELSE LET s1 == ops_select_all_deselect(sc)
           s2 == set_active(s1, obj)
           s3 == ops_mode_set(s2, "OBJECT")
           s4 == set_select(s3, obj)
       IN  Outcome(set_active(s4, s4.active), "ok", None)

delete_selected_objects(sc) == ops_object_delete(sc)

RECURSIVE SelectEach(_, _)
SelectEach(sc, S) ==
  IF S = {} THEN sc
  ELSE LET o == CHOOSE x \in S : \A y \in S : x <= y
       IN  SelectEach(set_select(sc, o), S \ {o})

delete_all_cameras_keep_selection(sc) ==
  Outcome(delete_selected_objects(SelectEach(sc, Cameras(sc))), "ok", None)

delete_all_cameras(sc) ==
  LET s1 == ops_select_all_deselect(sc)
      s2 == SelectEach(s1, Cameras(s1))
  IN  Outcome(delete_selected_objects(s2), "ok", None)

import_fbx(sc, file) == ops_import_fbx(sc, file)

import_agisoft_scan_no_camera_delete(sc, file) ==
  LET s1 == import_fbx(sc, file)
  IN  IF Cardinality(s1.objects) # 1
        THEN Outcome(s1, "ValueError", None)
        ELSE Outcome(s1, "ok", CHOOSE o \in s1.objects : TRUE)

import_agisoft_scan(sc, file) ==
  LET s1 == import_fbx(sc, file)
      s2 == delete_all_cameras(s1).scene
  IN  IF Cardinality(s2.objects) # 1
        THEN Outcome(s2, "ValueError", None)
        ELSE Outcome(s2, "ok", CHOOSE o \in s2.objects : TRUE)

\* ------------------------------------------------------------ scene inputs
Files == UNION {[1..n -> ObjTypes] : n \in 0..MaxFileObjs}

InitScenes ==
  { [objects |-> DOMAIN ty, otype |-> ty, selected |-> sel, active |-> act,
     mode |-> m, groups |-> <<>>, nextId |-> MaxInitObjs + 1] :
      ty \in UNION {[S -> ObjTypes] : S \in SUBSET (1..MaxInitObjs)},
      sel \in SUBSET (1..MaxInitObjs),
      act \in (1..MaxInitObjs) \cup {None},
      m \in {"OBJECT", "EDIT"} }

\* A scene the host can be in: the selection and the active object are
\* objects of the scene, and edit mode has an active mesh being edited.
SceneOK(sc) ==
  /\ sc.selected \subseteq sc.objects
  /\ sc.active \in sc.objects \cup {None}
  /\ sc.mode = "EDIT" => (sc.active # None /\ sc.otype[sc.active] = "MESH")

Call(op, arg, out) ==
  /\ scene' = out.scene
  /\ last' = [op |-> op, arg |-> arg, pre |-> scene,
              result |-> out.result, ret |-> out.ret]

Idle == [phase |-> "idle"]

SceneInit ==
  /\ scene \in {sc \in InitScenes : SceneOK(sc)}
  /\ last = [op |-> "none", arg |-> None, pre |-> scene, result |-> "ok", ret |-> None]
  /\ mat = Idle /\ mesh = Idle /\ lay = Idle /\ bake = Idle

SelectObject ==
  /\ \E obj \in scene.objects \cup {None} : Call("select_object", obj, select_object(scene, obj))
  /\ UNCHANGED <<mat, mesh, lay, bake>>

DeleteAllCameras ==
  /\ Call("delete_all_cameras", None, delete_all_cameras(scene))
  /\ UNCHANGED <<mat, mesh, lay, bake>>

ImportAgisoftScan ==
  /\ \E file \in Files :
       /\ scene.nextId + Len(file) <= MaxIds + 1
       /\ Call("import_agisoft_scan", file, import_agisoft_scan(scene, file))
  /\ UNCHANGED <<mat, mesh, lay, bake>>

SceneNext == SelectObject \/ DeleteAllCameras \/ ImportAgisoftScan

SpecScene == SceneInit /\ [][SceneNext]_vars

\* C1: select_object(None) raises ValueError before any host call: the
\* selection, the active object and the editing mode are what they were
\* before the call.
C1_SelectNoneRaisesUntouched ==
  (last.op = "select_object" /\ last.arg = None) =>
     /\ last.result = "ValueError"
     /\ scene.selected = last.pre.selected
     /\ scene.active = last.pre.active
     /\ scene.mode = last.pre.mode

C1_Witness ==
  /\ last.op = "select_object" /\ last.arg = None
  /\ last.result = "ValueError"
  /\ last.pre.selected # {} /\ last.pre.active # None /\ last.pre.mode = "EDIT"

\* The ids the objects of an imported file get, by type.
Imported(pre, file, ty) == {pre.nextId + k - 1 : k \in {j \in DOMAIN file : file[j] = ty}}

\* C2: import_agisoft_scan imports the file, deletes every camera, then
\* counts: ValueError exactly when the number of objects left is not one;
\* a normal return exactly when one object is left, and it returns that one.
C2_ImportCountsAfterCameraDelete ==
  last.op = "import_agisoft_scan" =>
     LET kept == {o \in last.pre.objects : last.pre.otype[o] # "CAMERA"}
                   \cup Imported(last.pre, last.arg, "MESH")
     IN  /\ scene.objects = kept
         /\ (last.result = "ValueError") <=> (Cardinality(kept) # 1)
         /\ (last.result = "ok") <=> (Cardinality(kept) = 1)
         /\ last.result = "ok" => kept = {last.ret}

C2_Witness ==
  /\ last.op = "import_agisoft_scan" /\ last.result = "ok"
  /\ Imported(last.pre, last.arg, "CAMERA") # {}
  /\ last.ret \in Imported(last.pre, last.arg, "MESH")
  /\ Cameras(last.pre) # {}

\* C8: delete_all_cameras removes every CAMERA object and nothing else,
\* whatever was selected before the call.
C8_DeleteAllCamerasOnly ==
  last.op = "delete_all_cameras" =>
     /\ Cameras(scene) = {}
     /\ scene.objects = {o \in last.pre.objects : last.pre.otype[o] # "CAMERA"}
     /\ \A o \in scene.objects : scene.otype[o] = last.pre.otype[o]

C8_Witness ==
  /\ last.op = "delete_all_cameras"
  /\ \E o \in last.pre.selected : last.pre.otype[o] = "MESH" /\ o \in scene.objects
  /\ \E c \in Cameras(last.pre) : c \notin last.pre.selected /\ c \notin scene.objects

\* ------------------------------------------------------------- make_matrix
\* Vectors are triples of integers, so every product below is exact.
MaxCoord == 1        \* the points of make_matrix lie in (0..MaxCoord)^3

Vec(x, y, z) == <<x, y, z>>
VSub(u, w) == Vec(u[1] - w[1], u[2] - w[2], u[3] - w[3])
VDot(u, w) == u[1] * w[1] + u[2] * w[2] + u[3] * w[3]
\* Vector.cross
VCross(u, w) == Vec(u[2] * w[3] - u[3] * w[2],
                    u[3] * w[1] - u[1] * w[3],
                    u[1] * w[2] - u[2] * w[1])
\* Vector.magnitude is the square root of this, and is > 0 exactly when
\* this is > 0.
Magnitude2(u) == VDot(u, u)

MatrixOf(a, c, v1) ==
  \* the columns of m before the host normalises them, the translation and
  \* the square of the scale s = a.magnitude
  [result |-> "ok", x_axis |-> a, y_axis |-> VCross(c, a), z_axis |-> c,
   translation |-> v1, scale2 |-> Magnitude2(a)]

make_matrix_tests_a(v1, v2, v3) ==
  LET a == VSub(v2, v1)
      b == VSub(v3, v1)
      c == VCross(a, b)
  IN  IF Magnitude2(a) > 0 THEN MatrixOf(a, c, v1)
      ELSE [result |-> "BaseException"]

make_matrix(v1, v2, v3) ==
  LET a == VSub(v2, v1)
      b == VSub(v3, v1)
      c == VCross(a, b)
  IN  IF Magnitude2(c) > 0 THEN MatrixOf(a, c, v1)
      ELSE [result |-> "BaseException"]

MatrixPoints == {Vec(x, y, z) : x \in 0..MaxCoord, y \in 0..MaxCoord, z \in 0..MaxCoord}

MatrixInit ==
  /\ mat \in [phase : {"input"}, v1 : MatrixPoints, v2 : MatrixPoints, v3 : MatrixPoints]
  /\ scene = Idle /\ last = Idle /\ mesh = Idle /\ lay = Idle /\ bake = Idle

MakeMatrix ==
  /\ mat.phase = "input"
  /\ mat' = [phase |-> "done", v1 |-> mat.v1, v2 |-> mat.v2, v3 |-> mat.v3,
             out |-> make_matrix(mat.v1, mat.v2, mat.v3)]
  /\ UNCHANGED <<scene, last, mesh, lay, bake>>

MatrixNext == MakeMatrix

SpecMatrix == MatrixInit /\ [][MatrixNext]_vars

\* Three points are colinear when the two differences from v1 are linearly
\* dependent: s*(v2-v1) = t*(v3-v1) for integers s, t, not both zero.
Colinear(v1, v2, v3) ==
  \E s \in -MaxCoord..MaxCoord, t \in -MaxCoord..MaxCoord :
     /\ <<s, t>> # <<0, 0>>
     /\ \A k \in 1..3 : s * (v2[k] - v1[k]) = t * (v3[k] - v1[k])

NumLayers == 20          \* len(obj.layers)
ZeroLayerIndex == 9      \* editor layer 0 is index 9
MaxInitLayers == 2       \* layers an object is on before the first call
MaxLayerArg == 21        \* layer arguments range over -MaxLayerArg..MaxLayerArg

\* i = layer - 1; if (layer == 0): i = 9
LayerIndex_no_zero_case(layer) == layer - 1

LayerIndex(layer) == IF layer = 0 THEN ZeroLayerIndex ELSE layer - 1

\* The entry a Python index names: a negative index counts from the end.
PyIndex(i) == IF i < 0 THEN i + NumLayers ELSE i

\* obj.layers[index] = value.  The host stores the array as a whole and,
\* when it validates, ignores a store that would leave no layer set.
LayersStore(layers, index, value, validates) ==
  LET new == IF value THEN layers \cup {index} ELSE layers \ {index}
  IN  IF validates /\ new = {} THEN layers ELSE new

\* for index in range(0, len(obj.layers)): if (index != i): obj.layers[index] = False
RECURSIVE ClearOthers(_, _, _, _)
ClearOthers(layers, i, index, validates) ==
  IF index >= NumLayers THEN layers
  ELSE ClearOthers(IF index # i THEN LayersStore(layers, index, FALSE, validates)
                                 ELSE layers,
                   i, index + 1, validates)

move_object_to_layer(layers, layer, validates) ==
  LET i == LayerIndex(layer)
  IN  IF PyIndex(i) \notin 0..(NumLayers - 1)
        THEN [result |-> "IndexError", layers |-> layers]
        ELSE [result |-> "ok",
              layers |-> ClearOthers(LayersStore(layers, PyIndex(i), TRUE, validates),
                                     i, 0, validates)]

LayerInit ==
  /\ lay \in [phase : {"input"},
              layers : {L \in SUBSET (0..(NumLayers - 1)) :
                          Cardinality(L) \in 1..MaxInitLayers}]
  /\ scene = Idle /\ last = Idle /\ mat = Idle /\ mesh = Idle /\ bake = Idle

MoveObjectToLayer ==
  /\ lay.phase = "input"
  /\ \E layer \in -MaxLayerArg..MaxLayerArg, validates \in BOOLEAN :
       LET out == move_object_to_layer(lay.layers, layer, validates)
       IN  lay' = [phase |-> "done", layers |-> out.layers, pre |-> lay.layers,
                   layer |-> layer, result |-> out.result]
  /\ UNCHANGED <<scene, last, mat, mesh, bake>>

LayerNext == MoveObjectToLayer

SpecLayer == LayerInit /\ [][LayerNext]_vars

\* The index the editor's numbering gives a layer: 1 -> 0, 2 -> 1, ...,
\* 0 -> 9.
EditorIndex(layer) == IF layer = 0 THEN 9 ELSE layer - 1

\* C5 as stated: whenever the call returns normally, exactly the entry at
\* the mapped index is True afterwards.
C5_AnyLayerOneEntry ==
  (lay.phase = "done" /\ lay.result = "ok") =>
     lay.layers = {PyIndex(EditorIndex(lay.layer))}

\* C5, for the layer arguments 0..20: the call returns normally and exactly
\* the entry at the mapped index (layer-1, or 9 for layer 0) is True
\* afterwards, whatever the layers were before.
C5_EditorLayerOneEntry ==
  (lay.phase = "done" /\ lay.layer \in 0..NumLayers) =>
     /\ lay.result = "ok"
     /\ lay.layers = {EditorIndex(lay.layer)}

C5_Witness ==
  /\ lay.phase = "done" /\ lay.layer = 0 /\ lay.result = "ok"
  /\ Cardinality(lay.pre) = 2 /\ 9 \notin lay.pre
  /\ lay.layers = {9}

\* ------------------------------------------------- collapse_edges_in_order
\* The bmesh is co, the coordinates of the vertices 0..n-1, and edges, the
\* sequence bm.edges of pairs <<verts[0].index, verts[1].index>>.
\* Coordinates are integers; a distance is kept as its square and an angle
\* as its cosine num / sqrt(den2), so every comparison below is exact.
MaxNorm == 2         \* a vertex <<x, y, z>> has x + y + z <= MaxNorm

RECURSIVE get_vertex_neighbors(_, _)
get_vertex_neighbors(edges, v0) ==
  IF edges = <<>> THEN <<>>
  ELSE LET e == Head(edges)
           rest == get_vertex_neighbors(Tail(edges), v0)
       IN  IF e[1] = v0 THEN <<e[2]>> \o rest
           ELSE IF e[2] = v0 THEN <<e[1]>> \o rest
           ELSE rest

\* The square of get_distance_between_points
Distance2(p, q) ==
  (p[1] - q[1]) * (p[1] - q[1]) + (p[2] - q[2]) * (p[2] - q[2])
    + (p[3] - q[3]) * (p[3] - q[3])

\* get_planar_angle: 0 when b or c is 0, else acos((b*b + c*c - a*a) / (2*b*c))
get_planar_angle(p0, p1, p2) ==
  LET a2 == Distance2(p0, p2)
      b2 == Distance2(p0, p1)
      c2 == Distance2(p1, p2)
  IN  IF b2 = 0 \/ c2 = 0 THEN [zero |-> TRUE]
      ELSE [zero |-> FALSE, num |-> b2 + c2 - a2, den2 |-> 4 * b2 * c2]

\* cos(angle) = sign * sqrt(k) / 2 for the angle arguments between 0 and 180
CosOf(angle) ==
  CASE angle = 0   -> [sign |-> 1, k |-> 4]
    [] angle = 30  -> [sign |-> 1, k |-> 3]
    [] angle = 45  -> [sign |-> 1, k |-> 2]
    [] angle = 60  -> [sign |-> 1, k |-> 1]
    [] angle = 90  -> [sign |-> 0, k |-> 0]
    [] angle = 120 -> [sign |-> -1, k |-> 1]
    [] angle = 135 -> [sign |-> -1, k |-> 2]
    [] angle = 150 -> [sign |-> -1, k |-> 3]
    [] angle = 180 -> [sign |-> -1, k |-> 4]

\* The sign of math.degrees(a) - angle: 1, 0 or -1.  acos decreases, so the
\* angle a is above the argument exactly when its cosine is below the
\* argument's: 2*num < sign * sqrt(k * den2).
DegreesCompare(a, angle) ==
  IF a.zero THEN (IF angle < 0 THEN 1 ELSE IF angle = 0 THEN 0 ELSE -1)
  ELSE IF angle < 0 THEN 1
  ELSE IF angle > 180 THEN -1
  ELSE LET c == CosOf(angle)
           l == 2 * a.num
           r2 == c.k * a.den2
           \* the sign of l - sign * sqrt(r2)
           d == IF c.sign >= 0
                  THEN (IF l < 0 THEN -1
                        ELSE IF l * l < r2 THEN -1
                        ELSE IF l * l = r2 THEN 0 ELSE 1)
                  ELSE (IF l >= 0 THEN 1
                        ELSE IF l * l > r2 THEN -1
                        ELSE IF l * l = r2 THEN 0 ELSE 1)
       IN  -d

collapse_points_on_line_moves_neighbor(co, i0, i1, i2, angle) ==
  IF DegreesCompare(get_planar_angle(co[i0], co[i1], co[i2]), angle) = 1
    THEN [co EXCEPT ![i0] = co[i1]]
    ELSE co

\* if (math.degrees(a) > angle): v1.co = v0.co
collapse_points_on_line(co, i0, i1, i2, angle) ==
  IF DegreesCompare(get_planar_angle(co[i0], co[i1], co[i2]), angle) = 1
    THEN [co EXCEPT ![i1] = co[i0]]
    ELSE co

\* bpy.ops.mesh.remove_doubles() on the whole mesh: vertices at the same
\* place become one, and an edge between them disappears.
RemoveDoubles(co, edges) ==
  [verts |-> {co[v] : v \in DOMAIN co},
   edges |-> {{co[edges[k][1]], co[edges[k][2]]} :
                k \in {j \in DOMAIN edges : co[edges[j][1]] # co[edges[j][2]]}}]

update_object_from_bmesh(sc, o) ==
  LET s1 == ops_mode_set(sc, "OBJECT")
      s2 == select_object(s1, o).scene
      s3 == ops_mode_set(s2, "EDIT")
  IN  ops_mode_set(s3, "OBJECT")

CollapsePoints ==
  {Vec(x, y, z) : x \in 0..MaxNorm, y \in 0..MaxNorm, z \in 0..MaxNorm} \cap
  {p \in (0..MaxNorm) \X (0..MaxNorm) \X (0..MaxNorm) : p[1] + p[2] + p[3] <= MaxNorm}

\* bm.edges of the three-vertex meshes tried: a path through each of the
\* three vertices in turn, a triangle, one edge beside a loose vertex, and
\* no edge.
EdgeLists ==
  { << <<0, 1>>, <<1, 2>> >>,
    << <<2, 1>>, <<1, 0>> >>,
    << <<0, 1>>, <<2, 0>> >>,
    << <<0, 1>>, <<1, 2>>, <<2, 0>> >>,
    << <<1, 2>> >>,
    << >> }

\* A four-vertex mesh: a triangle with a fourth vertex hung on vertex 2,
\* which then has three neighbours.
PendantEdges == << <<0, 1>>, <<1, 2>>, <<2, 0>>, <<3, 2>> >>
PendantPoints == {Vec(0, 0, 0), Vec(1, 0, 0)}

Meshes ==
  {[co |-> co, edges |-> edges] : co \in [0..2 -> CollapsePoints], edges \in EdgeLists}
  \cup
  {[co |-> co, edges |-> PendantEdges] :
     co \in {c \in [0..3 -> CollapsePoints] : c[3] \in PendantPoints}}

AngleArgs == {-10, 0, 90, 120, 180}

\* The object whose mesh is collapsed, alone in its scene.
CollapseScene ==
  [objects |-> {1}, otype |-> (1 :> "MESH"), selected |-> {}, active |-> None,
   mode |-> "OBJECT", groups |-> <<>>, nextId |-> 2]

CollapseInit ==
  /\ \E m \in Meshes, angle \in AngleArgs :
       mesh = [phase |-> "loop", o |-> 1, co |-> m.co, edges |-> m.edges,
               angle |-> angle, i |-> 0, co0 |-> m.co, visited |-> <<>>]
  /\ scene = CollapseScene
  /\ last = Idle /\ mat = Idle /\ lay = Idle /\ bake = Idle

\* One pass of "for v in bm.verts"
CollapseVisit ==
  /\ mesh.phase = "loop"
  /\ mesh.i \in DOMAIN mesh.co
  /\ LET neighbors == get_vertex_neighbors(mesh.edges, mesh.i)
     IN  mesh' = [mesh EXCEPT
           !.co = IF Len(neighbors) = 2
                    THEN collapse_points_on_line(mesh.co, neighbors[1], mesh.i,
                                                 neighbors[2], mesh.angle)
                    ELSE mesh.co,
           !.i = mesh.i + 1,
           !.visited = Append(mesh.visited, mesh.i)]
  /\ UNCHANGED <<scene, last, mat, lay, bake>>

\* The loop is over: update_object_from_bmesh(o, bm)
CollapseUpdate ==
  /\ mesh.phase = "loop"
  /\ mesh.i \notin DOMAIN mesh.co
  /\ mesh' = [phase |-> "done", o |-> mesh.o, co |-> mesh.co, edges |-> mesh.edges,
              angle |-> mesh.angle, i |-> mesh.i, co0 |-> mesh.co0,
              visited |-> mesh.visited, data |-> RemoveDoubles(mesh.co, mesh.edges)]
  /\ scene' = update_object_from_bmesh(scene, mesh.o)
  /\ UNCHANGED <<last, mat, lay, bake>>

CollapseNext == CollapseVisit \/ CollapseUpdate

SpecCollapse == CollapseInit /\ [][CollapseNext]_vars

\* The number of edges incident to vertex v
NeighbourCount(edges, v) ==
  Cardinality({k \in DOMAIN edges : v \in {edges[k][1], edges[k][2]}})

\* A step of the vertex loop
LoopStep == mesh.phase = "loop" /\ mesh'.phase = "loop"

\* C4 as stated: a visited vertex with exactly two neighbours moves onto its
\* first neighbour exactly when the angle measured at it, in degrees, is
\* less than the angle argument, and stays in place otherwise.
C4_CollapseIffAngleLess ==
  [][(LoopStep /\ NeighbourCount(mesh.edges, mesh.i) = 2) =>
       LET nb == get_vertex_neighbors(mesh.edges, mesh.i)
           less == DegreesCompare(get_planar_angle(mesh.co[nb[1]], mesh.co[mesh.i],
                                                   mesh.co[nb[2]]),
                                  mesh.angle) = -1
       IN  /\ less => mesh'.co[mesh.i] = mesh.co[nb[1]]
           /\ ~less => mesh'.co[mesh.i] = mesh.co[mesh.i]]_vars

\* C9: the loop visits the vertices in index order; a step moves at most the
\* visited vertex, and moves it only if it has exactly two incident edges;
\* its two neighbours are not modified by the step; no vertex and no edge is
\* added or removed before update_object_from_bmesh runs; so a vertex whose
\* neighbour count is not two keeps its coordinates for the whole pass.
C9_OnlyVisitedTwoNeighbourVertexMoves ==
  /\ [](mesh.phase = "loop" =>
          /\ \A k \in DOMAIN mesh.visited : mesh.visited[k] = k - 1
          /\ DOMAIN mesh.co = DOMAIN mesh.co0 /\ mesh.i = Len(mesh.visited)
          /\ \A v \in DOMAIN mesh.co :
               NeighbourCount(mesh.edges, v) # 2 => mesh.co[v] = mesh.co0[v])
  /\ [][LoopStep =>
          LET v == mesh'.visited[Len(mesh'.visited)]
          IN  /\ v = mesh.i
              /\ Len(mesh'.visited) = Len(mesh.visited) + 1
              /\ DOMAIN mesh'.co = DOMAIN mesh.co
              /\ mesh'.edges = mesh.edges
              /\ \A w \in DOMAIN mesh.co : w # v => mesh'.co[w] = mesh.co[w]
              /\ LET nb == get_vertex_neighbors(mesh.edges, v)
                 IN  \A j \in DOMAIN nb : mesh'.co[nb[j]] = mesh.co[nb[j]]
              /\ NeighbourCount(mesh.edges, v) # 2 => mesh'.co[v] = mesh.co[v]]_vars

C9_Witness ==
  /\ mesh.phase = "loop" /\ mesh.edges = PendantEdges /\ mesh.i = 4
  /\ mesh.co[0] # mesh.co0[0] /\ mesh.co[0] = mesh.co0[1]
  /\ mesh.co0[2] # mesh.co0[0] /\ mesh.co0[2] # mesh.co0[1] /\ mesh.co0[2] # mesh.co0[3]

\* ------------------------------------------- render_360_images_for_cameras
MaxRenderObjs == 2   \* objects in the scene before the cubemap bake
MaxCams == 2         \* cameras passed to render_360_images_for_cameras

\* bpy.ops.mesh.primitive_cube_add(): the new cube is the only selected
\* object and the active one.
ops_primitive_cube_add(sc) ==
  LET s1 == AddObject(sc, "MESH")
  IN  [s1 EXCEPT !.selected = {sc.nextId}, !.active = sc.nextId]

\* bpy.data.groups.new(name=...): a new, empty group, whatever groups exist.
groups_new(sc) == [sc EXCEPT !.groups = Append(sc.groups, {})]

\* g.objects.link(o)
group_link(sc, g, o) == [sc EXCEPT !.groups[g] = sc.groups[g] \cup {o}]

\* bpy.ops.object.select_grouped(type='GROUP'): selects the objects that
\* share a group with the active object; an error without an active object.
ops_select_grouped(sc) ==
  IF sc.active = None THEN [result |-> "RuntimeError", scene |-> sc]
  ELSE [result |-> "ok",
        scene |-> [sc EXCEPT !.selected =
                     UNION {sc.groups[g] : g \in {h \in DOMAIN sc.groups :
                                                    sc.active \in sc.groups[h]}}]]

\* U is kept in sixths: "x_pos += 1/6" adds one.
UVWrite(loop, v) == [op |-> "uv", loop |-> loop, v |-> v]
XInc == [op |-> "inc"]

UVProgram_loop_17_twice ==
  << UVWrite(8, 0), UVWrite(11, 1), XInc, UVWrite(9, 0), UVWrite(10, 1),
     UVWrite(0, 0), UVWrite(3, 1), XInc, UVWrite(1, 0), UVWrite(2, 1),
     UVWrite(4, 0), UVWrite(7, 1), XInc, UVWrite(5, 0), UVWrite(6, 1),
     UVWrite(12, 0), UVWrite(15, 1), XInc, UVWrite(13, 0), UVWrite(14, 1),
     UVWrite(20, 0), UVWrite(23, 1), XInc, UVWrite(21, 0), UVWrite(22, 1),
     UVWrite(16, 0), UVWrite(19, 1), XInc, UVWrite(17, 0), UVWrite(17, 1) >>

\* The statements of lines 286-325, in order.
UVProgram ==
  << UVWrite(8, 0), UVWrite(11, 1), XInc, UVWrite(9, 0), UVWrite(10, 1),
     UVWrite(0, 0), UVWrite(3, 1), XInc, UVWrite(1, 0), UVWrite(2, 1),
     UVWrite(4, 0), UVWrite(7, 1), XInc, UVWrite(5, 0), UVWrite(6, 1),
     UVWrite(12, 0), UVWrite(15, 1), XInc, UVWrite(13, 0), UVWrite(14, 1),
     UVWrite(20, 0), UVWrite(23, 1), XInc, UVWrite(21, 0), UVWrite(22, 1),
     UVWrite(16, 0), UVWrite(19, 1), XInc, UVWrite(17, 0), UVWrite(18, 1) >>

Loops == 0..23

\* m.uv_textures.new(): a fresh layer, no loop written by this module yet.
NewUVLayer == [l \in Loops |-> [uv |-> <<"host", "host">>, writes |-> 0]]

\* The lists of at most n distinct members of S
RECURSIVE SeqsNoRepeat(_, _)
SeqsNoRepeat(S, n) ==
  IF n = 0 THEN {<<>>}
  ELSE LET shorter == SeqsNoRepeat(S, n - 1)
           longer == {Append(q, x) : q \in shorter, x \in S}
       IN  shorter \cup
             {q \in longer : \A a, b \in DOMAIN q : a # b => q[a] # q[b]}

\* The scenes the bake starts from: object mode (the module's own note says
\* the bake needs it), at most one group made before.
RenderScenes ==
  { [objects |-> DOMAIN ty, otype |-> ty, selected |-> sel, active |-> act,
     mode |-> "OBJECT", groups |-> gs, nextId |-> MaxRenderObjs + 1] :
      ty \in UNION {[S -> ObjTypes] : S \in SUBSET (1..MaxRenderObjs)},
      sel \in SUBSET (1..MaxRenderObjs),
      act \in (1..MaxRenderObjs) \cup {None},
      gs \in {<<>>} \cup {<<G>> : G \in (SUBSET (1..MaxRenderObjs)) \ {{}}} }

RenderSceneOK(sc) ==
  SceneOK(sc) /\ \A g \in DOMAIN sc.groups : sc.groups[g] \subseteq sc.objects

RenderInit ==
  /\ scene \in {sc \in RenderScenes : RenderSceneOK(sc)}
  /\ bake \in [phase : {"idle"}, cameras : SeqsNoRepeat(Cameras(scene), MaxCams)]
  /\ last = Idle /\ mat = Idle /\ mesh = Idle /\ lay = Idle

\* render_360_images_for_cameras, lines 253-256
RenderStart ==
  /\ bake.phase = "idle"
  /\ scene' = groups_new(scene)
  /\ bake' = [phase |-> "cameras", cameras |-> bake.cameras, pre |-> scene,
              group |-> Len(scene.groups) + 1, k |-> 1, proxies |-> {}]
  /\ UNCHANGED <<last, mat, mesh, lay>>

\* render_360_for_camera, lines 270-284
RenderCubeAdd ==
  /\ bake.phase = "cameras"
  /\ bake.k <= Len(bake.cameras)
  /\ LET s1 == ops_primitive_cube_add(scene)
         o == s1.active
     IN  /\ scene' = group_link(s1, bake.group, o)
         /\ bake' = [phase |-> "uv", cameras |-> bake.cameras, pre |-> bake.pre,
                     group |-> bake.group, k |-> bake.k, proxies |-> bake.proxies,
                     o |-> o, uv |-> NewUVLayer, x_pos |-> 0, pc |-> 1]
  /\ UNCHANGED <<last, mat, mesh, lay>>

\* render_360_for_camera, one statement of lines 286-325
RenderUVStep ==
  /\ bake.phase = "uv"
  /\ bake.pc <= Len(UVProgram)
  /\ LET st == UVProgram[bake.pc]
     IN  bake' = [bake EXCEPT
           !.pc = bake.pc + 1,
           !.x_pos = IF st.op = "inc" THEN bake.x_pos + 1 ELSE bake.x_pos,
           !.uv = IF st.op = "uv"
                    THEN [bake.uv EXCEPT ![st.loop] =
                            [uv |-> <<bake.x_pos, st.v>>,
                             writes |-> bake.uv[st.loop].writes + 1]]
                    ELSE bake.uv]
  /\ UNCHANGED <<scene, last, mat, mesh, lay>>

\* render_360_for_camera, lines 327-348, and the next round of the loop
RenderBake ==
  /\ bake.phase = "uv"
  /\ bake.pc > Len(UVProgram)
  /\ bake' = [phase |-> "cameras", cameras |-> bake.cameras, pre |-> bake.pre,
              group |-> bake.group, k |-> bake.k + 1,
              proxies |-> bake.proxies \cup {bake.o}]
  /\ UNCHANGED <<scene, last, mat, mesh, lay>>

\* render_360_images_for_cameras, lines 262-264
RenderExport ==
  /\ bake.phase = "cameras"
  /\ bake.k > Len(bake.cameras)
  /\ LET out == ops_select_grouped(ops_select_all_deselect(scene))
     IN  /\ scene' = out.scene
         /\ bake' = [phase |-> "done", cameras |-> bake.cameras, pre |-> bake.pre,
                     group |-> bake.group, proxies |-> bake.proxies,
                     result |-> out.result,
                     exported |-> IF out.result = "ok" THEN out.scene.selected ELSE {}]
  /\ UNCHANGED <<last, mat, mesh, lay>>

RenderNext == RenderStart \/ RenderCubeAdd \/ RenderUVStep \/ RenderBake \/ RenderExport

SpecRender == RenderInit /\ [][RenderNext]_vars

\* C6 as stated: one proxy per camera, each linked into the new group, and
\* the selection exported is exactly the proxies made in this call.
C6_ExportsExactlyTheProxies ==
  (bake.phase = "done" /\ bake.result = "ok") =>
     /\ Cardinality(bake.proxies) = Len(bake.cameras)
     /\ bake.proxies \cap bake.pre.objects = {}
     /\ scene.groups[bake.group] = bake.proxies
     /\ bake.exported = bake.proxies

\* The loops of the six faces, in the order +X, -X, +Y, -Y, +Z, -Z.
FaceLoops == << {8, 9, 10, 11}, {0, 1, 2, 3}, {4, 5, 6, 7},
                {12, 13, 14, 15}, {20, 21, 22, 23}, {16, 17, 18, 19} >>

\* C7: the UV assignment writes each of the 24 loops once (never twice on
\* the way), every V is 0 or 1, and face k of +X, -X, +Y, -Y, +Z, -Z has two
\* loops at U = (k-1)/6 and two at U = k/6, so the strips share their bounds
\* and run from 0 to 1.
C7_UVStrips ==
  /\ bake.phase = "uv" => \A l \in Loops : bake.uv[l].writes <= 1
  /\ (bake.phase = "uv" /\ bake.pc > Len(UVProgram)) =>
        /\ \A l \in Loops : bake.uv[l].writes = 1 /\ bake.uv[l].uv[2] \in {0, 1}
        /\ \A k \in 1..6 :
             /\ Cardinality({l \in FaceLoops[k] : bake.uv[l].uv[1] = k - 1}) = 2
             /\ Cardinality({l \in FaceLoops[k] : bake.uv[l].uv[1] = k}) = 2
             /\ \A u \in {k - 1, k} :
                  {bake.uv[l].uv[2] : l \in {m \in FaceLoops[k] : bake.uv[m].uv[1] = u}}
                    = {0, 1}
        /\ bake.x_pos = 6

C7_Witness ==
  /\ bake.phase = "uv" /\ bake.pc > Len(UVProgram) /\ bake.k = 2
  /\ bake.uv[8].uv = <<0, 0>> /\ bake.uv[18].uv = <<6, 1>>

====
